---- MODULE Spec2Model ----
(***************************************************************************)
(* State-machine model of the CyclicBuffer class                           *)
(* (src/CyclicBuffer/cyclicbuffer.h, src/CyclicBuffer/cyclicbuffer.cpp).   *)
(*                                                                         *)
(* One action per public member function.  The C++ fields keep their names.*)
(* Besides the fields, the model records the last call and its result     *)
(* (call, ret, acc) and the history of an uninterrupted write/read run     *)
(* (sess, written, reads, fresh), which the properties refer to.           *)
(***************************************************************************)
EXTENDS Integers, Sequences, FiniteSets, TLC

\* ------------------------------------------------------------------ bounds

\* Largest allocation size (buf_size / size argument) the model explores.
MaxCap == 3

\* unsigned char, scaled down to two values: (unsigned char)NULL and one
\* other.  The code never branches on a stored byte and never computes with
\* one; it only copies bytes and stores the constant (unsigned char)NULL.
Byte == {0, 1}

\* unsigned int, scaled down: arithmetic is modulo UIntModulus, which stays
\* strictly above every allocation size the model explores.
UIntModulus == 2 * (MaxCap + 1)

UIntMax == UIntModulus - 1

UAdd(a, b) == (a + b) % UIntModulus

USub(a, b) == (a - b + UIntModulus) % UIntModulus

\* Arguments of type unsigned int that the model passes as an index: every
\* index of the largest allocation, one past it, and the largest unsigned.
Indices == (0 .. (MaxCap + 1)) \cup {UIntMax}

\* Arguments passed as a size.
Sizes == 0 .. MaxCap

\* Values the caller's int behind 'success' may hold before the constructor
\* runs (main.cpp: 'int s;' is not initialised).
CallerInts == {0, 999}

\* ------------------------------------------------------- enum buffer_error

BUFFER_OK == 0

BUFFER_INVALID_SIZE == 1

BUFFER_ALLOCATION_ERROR == 2

BUFFER_INDEX_GREATER == 3

BUFFER_INDEX_LESS == 4

BUFFER_INDEX_COLLISION_LESS == 5

BUFFER_INDEX_COLLISION_GREATER == 6

BUFFER_INCORRECT_SIZE == 7

BUFFER_INDEX_OUT_OF_RANGE == 8

BUFFER_UNDEFINED_ERROR == 999

\* (unsigned char)NULL
NullChar == 0

\* ------------------------------------------------------------------- state

VARIABLES
    phase,              \* "new" before the constructor ran, then "ok" or "failed"
    buffer_error_code,  \* private field: latest error code
    buffer,             \* the allocation: a function 0 .. buffer_size-1 -> Byte
    buffer_size,
    top_index,
    bottom_index,
    write_ptr,
    read_ptr,
    call,               \* the last member function called (see Call)
    ret,                \* what that call handed back: its return value, 0 for
                        \* a void function, *success for the constructor
    acc,                \* the indices of buffer[] that call read or wrote
    sess,               \* "idle", "writing" or "reading" (see Track...)
    written,            \* the bytes of the current run of consecutive Push calls
    reads,              \* the results of the Pop calls that followed that run
    fresh               \* TRUE while only Push was called since construction

fields == <<buffer_error_code, buffer, buffer_size, top_index, bottom_index,
            write_ptr, read_ptr>>

history == <<sess, written, reads, fresh>>

vars == <<phase, fields, call, ret, acc, history>>

\* A call record: the function and its unsigned int argument (buf_size,
\* index or size).  The argument is recorded as 0 for a function that takes
\* none and for GetValueAt and SetValueAt, whose properties quantify over
\* the arguments of the step instead.
Call(op, arg) == [op |-> op, arg |-> arg]

\* Faulty variant of Zeroed: the byte at hi is left out.
ZeroedBelow(buf, lo, hi) ==
    [i \in DOMAIN buf |-> IF lo <= i /\ i < hi THEN NullChar ELSE buf[i]]

\* buf with the bytes at lo .. hi set to (unsigned char)NULL: the effect of
\* 'for (i = lo; i <= hi; i++) buffer[i] = (unsigned char)NULL'.
Zeroed(buf, lo, hi) ==
    [i \in DOMAIN buf |-> IF lo <= i /\ i <= hi THEN NullChar ELSE buf[i]]

\* ----------------------------------------------------- history bookkeeping

\* Longest run of Push calls recorded on a freshly constructed buffer.
MaxWrites == MaxCap + 2

WindowSize == (top_index - bottom_index) + 1

\* Any call other than Push and Pop ends the recorded run.
TrackOther ==
    /\ sess' = "idle"
    /\ written' = <<>>
    /\ reads' = <<>>
    /\ fresh' = FALSE

\* The state the constructor leaves the history in.
TrackConstructed ==
    /\ sess' = "idle"
    /\ written' = <<>>
    /\ reads' = <<>>
    /\ fresh' = TRUE

\* Push(ch): a run starts at a Push called with read_ptr = write_ptr and
\* grows with each further Push; it is recorded up to WindowSize bytes, and
\* up to MaxWrites bytes on a freshly constructed buffer.
TrackPush(ch) ==
    LET limit == IF fresh THEN MaxWrites ELSE WindowSize
    IN  IF sess = "writing" /\ Len(written) < limit
        THEN /\ sess' = "writing"
             /\ written' = Append(written, ch)
             /\ reads' = <<>>
             /\ fresh' = fresh
        ELSE IF sess # "writing" /\ read_ptr = write_ptr
        THEN /\ sess' = "writing"
             /\ written' = <<ch>>
             /\ reads' = <<>>
             /\ fresh' = fresh
        ELSE TrackOther

\* Pop() returning r: the Pop calls that follow a run of at most WindowSize
\* Push calls are recorded until there are as many of them as the run had
\* Push calls.
TrackPop(r) ==
    IF /\ sess \in {"writing", "reading"}
       /\ Len(written) <= WindowSize
       /\ Len(reads) < Len(written)
    THEN /\ sess' = "reading"
         /\ written' = written
         /\ reads' = Append(reads, r)
         /\ fresh' = FALSE
    ELSE TrackOther

\* ----------------------------------------------------------------- actions

Init ==
    /\ phase = "new"
    /\ buffer_error_code = BUFFER_UNDEFINED_ERROR
    /\ buffer = <<>>
    /\ buffer_size = 0
    /\ top_index = 0
    /\ bottom_index = 0
    /\ write_ptr = 0
    /\ read_ptr = 0
    /\ call = Call("none", 0)
    /\ ret = 0
    /\ acc = {}
    /\ sess = "idle"
    /\ written = <<>>
    /\ reads = <<>>
    /\ fresh = FALSE

\* Faulty variant of ConstructorTop: the top border one past the last index.
ConstructorTopOnePast(buf_size) == buf_size

\* top_index = buf_size-1;
ConstructorTop(buf_size) == USub(buf_size, 1)

\* Faulty variant of ClearedRange: the byte at top is included.
ClearedRangeInclusive(bottom, top) ==
    {i \in 0 .. UIntMax : bottom <= i /\ i <= top}

\* ClearBuffer(): for(i=bottom_index; i<top_index; i++) buffer[i] = NULL;
ClearedRange(bottom, top) == {i \in 0 .. UIntMax : bottom <= i /\ i < top}

Cleared(buf, bottom, top) ==
    [i \in DOMAIN buf |->
        IF i \in ClearedRange(bottom, top) THEN NullChar ELSE buf[i]]

\* CyclicBuffer(buf_size, success).  alloc_ok: whether new[] handed back
\* memory; fill: the contents of the fresh, uninitialised allocation;
\* s0: the value of *success when the constructor is entered.
Constructor(buf_size, alloc_ok, fill, s0) ==
    /\ phase = "new"
    /\ call' = Call("CyclicBuffer", buf_size)
    /\ IF buf_size = 0
       THEN /\ phase' = "failed"
            /\ ret' = BUFFER_INVALID_SIZE
            /\ buffer_error_code' = BUFFER_INVALID_SIZE
            /\ acc' = {}
            /\ UNCHANGED <<buffer, buffer_size, top_index, bottom_index,
                           write_ptr, read_ptr, history>>
       ELSE IF ~alloc_ok
       THEN /\ phase' = "failed"
            /\ ret' = BUFFER_ALLOCATION_ERROR
            /\ buffer_error_code' = BUFFER_ALLOCATION_ERROR
            /\ acc' = {}
            /\ UNCHANGED <<buffer, buffer_size, top_index, bottom_index,
                           write_ptr, read_ptr, history>>
       ELSE /\ phase' = "ok"
            /\ ret' = s0
            /\ buffer_error_code' = BUFFER_UNDEFINED_ERROR
            /\ bottom_index' = 0
            /\ top_index' = ConstructorTop(buf_size)
            /\ buffer_size' = buf_size
            /\ buffer' = Cleared(fill, 0, ConstructorTop(buf_size))
            /\ acc' = ClearedRange(0, ConstructorTop(buf_size))
            /\ write_ptr' = 0
            /\ read_ptr' = 0
            /\ TrackConstructed

\* Faulty variant of PushNext: the write pointer never wraps.
PushNextNoWrap(w, top, bottom) ==
    UAdd(w, 1)

\* Faulty variant of PushNext: '>=' for '>', the write pointer wraps one slot early.
PushNextEarly(w, top, bottom) ==
    IF UAdd(w, 1) >= top THEN bottom ELSE UAdd(w, 1)

\* if(++write_ptr > top_index) write_ptr = bottom_index;
PushNext(w, top, bottom) ==
    IF UAdd(w, 1) > top THEN bottom ELSE UAdd(w, 1)

Push(ch) ==
    /\ phase = "ok"
    /\ call' = Call("Push", 0)
    /\ ret' = 0
    /\ buffer' = [buffer EXCEPT ![write_ptr] = ch]
    /\ acc' = {write_ptr}
    /\ write_ptr' = PushNext(write_ptr, top_index, bottom_index)
    /\ TrackPush(ch)
    /\ UNCHANGED <<phase, buffer_error_code, buffer_size, top_index,
                   bottom_index, read_ptr>>

\* Faulty variant of PopNext: the read pointer wraps one slot early.
PopNextEarly(r, top, bottom) ==
    IF UAdd(r, 1) >= top THEN bottom ELSE UAdd(r, 1)

\* The read pointer Pop leaves behind when there is something to read.
PopNext(r, top, bottom) ==
    IF r = top THEN bottom ELSE UAdd(r, 1)

\* Faulty variant of PopIndex: 'buffer[++read_ptr]' for 'buffer[read_ptr++]'.
PopIndexPreIncrement(r, top) ==
    IF r = top THEN top ELSE UAdd(r, 1)

\* The index Pop returns the byte of when there is something to read.
PopIndex(r, top) ==
    IF r = top THEN top ELSE r

Pop ==
    /\ phase = "ok"
    /\ call' = Call("Pop", 0)
    /\ IF read_ptr = write_ptr
       THEN /\ ret' = NullChar
            /\ acc' = {}
            /\ read_ptr' = read_ptr
       ELSE /\ ret' = buffer[PopIndex(read_ptr, top_index)]
            /\ acc' = {PopIndex(read_ptr, top_index)}
            /\ read_ptr' = PopNext(read_ptr, top_index, bottom_index)
    /\ TrackPop(ret')
    /\ UNCHANGED <<phase, buffer_error_code, buffer, buffer_size,
                   top_index, bottom_index, write_ptr>>

\* Faulty variant of CheckIndex: '>=' for '>', the top border itself is refused.
CheckIndexTopRefused(index, top, bottom) ==
    IF index >= top THEN BUFFER_INDEX_GREATER
    ELSE IF index < bottom THEN BUFFER_INDEX_LESS
    ELSE BUFFER_OK

\* The range check of SetPopIndex and SetPushIndex.
CheckIndex(index, top, bottom) ==
    IF index > top THEN BUFFER_INDEX_GREATER
    ELSE IF index < bottom THEN BUFFER_INDEX_LESS
    ELSE BUFFER_OK

SetPopIndex(index) ==
    /\ phase = "ok"
    /\ call' = Call("SetPopIndex", index)
    /\ acc' = {}
    /\ buffer_error_code' = CheckIndex(index, top_index, bottom_index)
    /\ ret' = buffer_error_code'
    /\ read_ptr' = IF buffer_error_code' = BUFFER_OK THEN index ELSE read_ptr
    /\ TrackOther
    /\ UNCHANGED <<phase, buffer, buffer_size, top_index,
                   bottom_index, write_ptr>>

SetPushIndex(index) ==
    /\ phase = "ok"
    /\ call' = Call("SetPushIndex", index)
    /\ acc' = {}
    /\ buffer_error_code' = CheckIndex(index, top_index, bottom_index)
    /\ ret' = buffer_error_code'
    /\ write_ptr' = IF buffer_error_code' = BUFFER_OK THEN index ELSE write_ptr
    /\ TrackOther
    /\ UNCHANGED <<phase, buffer, buffer_size, top_index,
                   bottom_index, read_ptr>>

\* The checks SetTopIndex makes before it changes anything.
TopCheck(index, size, bottom) ==
    IF index > USub(size, 1) THEN BUFFER_INDEX_GREATER
    ELSE IF index < bottom THEN BUFFER_INDEX_COLLISION_LESS
    ELSE BUFFER_OK

\* Faulty variant of TopAdded: the loop starts at top_index.
TopAddedFromTop(top, index) ==
    IF top < index
    THEN {i \in 0 .. UIntMax : top <= i /\ i <= index}
    ELSE {}

\* if(top_index < index) for(i = top_index+1; i<=index; i++) buffer[i] = NULL;
TopAdded(top, index) ==
    IF top < index
    THEN {i \in 0 .. UIntMax : UAdd(top, 1) <= i /\ i <= index}
    ELSE {}

\* Faulty variant of TopCorrect: the pointer is sent to the new top border.
TopCorrectToTop(ptr, top, bottom) ==
    IF ptr > top THEN top ELSE ptr

\* if(ptr > top_index) ptr = bottom_index;   (after top_index = index)
TopCorrect(ptr, top, bottom) ==
    IF ptr > top THEN bottom ELSE ptr

SetTopIndex(index) ==
    /\ phase = "ok"
    /\ call' = Call("SetTopIndex", index)
    /\ buffer_error_code' = TopCheck(index, buffer_size, bottom_index)
    /\ ret' = buffer_error_code'
    /\ IF buffer_error_code' = BUFFER_OK
       THEN /\ acc' = TopAdded(top_index, index)
            /\ buffer' = [i \in DOMAIN buffer |->
                            IF i \in TopAdded(top_index, index)
                            THEN NullChar ELSE buffer[i]]
            /\ top_index' = index
            /\ write_ptr' = TopCorrect(write_ptr, index, bottom_index)
            /\ read_ptr' = TopCorrect(read_ptr, index, bottom_index)
       ELSE /\ acc' = {}
            /\ UNCHANGED <<buffer, top_index, write_ptr, read_ptr>>
    /\ TrackOther
    /\ UNCHANGED <<phase, buffer_size, bottom_index>>

\* Faulty variant of BottomCheck: the collision check comes first.
BottomCheckCollisionFirst(index, size, top) ==
    IF index > top THEN BUFFER_INDEX_COLLISION_GREATER
    ELSE IF index > USub(size, 1) THEN BUFFER_INDEX_GREATER
    ELSE BUFFER_OK

\* The checks SetBottomIndex makes before it changes anything.
BottomCheck(index, size, top) ==
    IF index > USub(size, 1) THEN BUFFER_INDEX_GREATER
    ELSE IF index > top THEN BUFFER_INDEX_COLLISION_GREATER
    ELSE BUFFER_OK

\* if(index < bottom_index)
\*     for(i = index; i<=(bottom_index-1); i++) buffer[i] = NULL;
BottomAdded(bottom, index) ==
    IF index < bottom
    THEN {i \in 0 .. UIntMax : index <= i /\ i <= USub(bottom, 1)}
    ELSE {}

\* if(ptr < bottom_index) ptr = bottom_index;   (after bottom_index = index)
BottomCorrect(ptr, bottom) ==
    IF ptr < bottom THEN bottom ELSE ptr

SetBottomIndex(index) ==
    /\ phase = "ok"
    /\ call' = Call("SetBottomIndex", index)
    /\ buffer_error_code' = BottomCheck(index, buffer_size, top_index)
    /\ ret' = buffer_error_code'
    /\ IF buffer_error_code' = BUFFER_OK
       THEN /\ acc' = BottomAdded(bottom_index, index)
            /\ buffer' = [i \in DOMAIN buffer |->
                            IF i \in BottomAdded(bottom_index, index)
                            THEN NullChar ELSE buffer[i]]
            /\ bottom_index' = index
            /\ write_ptr' = BottomCorrect(write_ptr, index)
            /\ read_ptr' = BottomCorrect(read_ptr, index)
       ELSE /\ acc' = {}
            /\ UNCHANGED <<buffer, bottom_index, write_ptr, read_ptr>>
    /\ TrackOther
    /\ UNCHANGED <<phase, buffer_size, top_index>>

\* if(border > highest_index) border = highest_index;
ReallocBorder(border, highest_index) ==
    IF border > highest_index THEN highest_index ELSE border

\* Faulty variant of ReallocRead: the read pointer is not corrected.
ReallocReadKept(r, highest_index, bottom) == r

\* if(read_ptr > highest_index) read_ptr = bottom_index;
ReallocRead(r, highest_index, bottom) ==
    IF r > highest_index THEN bottom ELSE r

\* Faulty variant of ReallocWrite: the write pointer is never reset.
ReallocWriteKept(w, highest_index) ==
    w

\* if(write_ptr > highest_index) write_ptr = 0;
ReallocWrite(w, highest_index) ==
    IF w > highest_index THEN 0 ELSE w

\* realloc(buffer, size): the first min(old size, size) bytes are kept, the
\* bytes beyond the old size hold whatever the allocator left there (fill).
\* (The block comes from new[]; the model takes realloc to treat it as the
\* malloc block it is on the usual C++ runtimes.)
Realloced(buf, old_size, size, fill) ==
    [i \in 0 .. (size - 1) |-> IF i < old_size THEN buf[i] ELSE fill[i]]

\* Faulty variant of ReallocZeroStatus: the constructor's code is reported.
ReallocZeroStatusInvalid ==
    BUFFER_INVALID_SIZE

\* if(!size) { buffer_error_code = BUFFER_INCORRECT_SIZE; return ...; }
ReallocZeroStatus ==
    BUFFER_INCORRECT_SIZE

\* Faulty variant of ReallocSameSize: no size is taken as the current one.
ReallocSameSizeNever(size, cur) ==
    FALSE

\* if(size==buffer_size): no special operations are needed.
ReallocSameSize(size, cur) ==
    size = cur

\* ReallocBuffer(size).  alloc_ok: whether realloc handed back memory.
ReallocBuffer(size, alloc_ok, fill) ==
    /\ phase = "ok"
    /\ call' = Call("ReallocBuffer", size)
    /\ acc' = {}
    /\ IF size = 0
       THEN /\ buffer_error_code' = ReallocZeroStatus
            /\ UNCHANGED <<buffer, buffer_size, top_index, bottom_index,
                           write_ptr, read_ptr>>
       ELSE IF ReallocSameSize(size, buffer_size)
       THEN /\ buffer_error_code' = BUFFER_OK
            /\ UNCHANGED <<buffer, buffer_size, top_index, bottom_index,
                           write_ptr, read_ptr>>
       ELSE IF ~alloc_ok
       THEN /\ buffer_error_code' = BUFFER_ALLOCATION_ERROR
            /\ UNCHANGED <<buffer, buffer_size, top_index, bottom_index,
                           write_ptr, read_ptr>>
       ELSE LET highest_index == USub(size, 1)
                new_bottom == ReallocBorder(bottom_index, highest_index)
            IN  /\ buffer' = Realloced(buffer, buffer_size, size, fill)
                /\ buffer_size' = size
                /\ top_index' = ReallocBorder(top_index, highest_index)
                /\ bottom_index' = new_bottom
                /\ read_ptr' = ReallocRead(read_ptr, highest_index, new_bottom)
                /\ write_ptr' = ReallocWrite(write_ptr, highest_index)
                /\ buffer_error_code' = BUFFER_OK
    /\ ret' = buffer_error_code'
    /\ TrackOther
    /\ UNCHANGED phase

ResetBuffer ==
    /\ phase = "ok"
    /\ call' = Call("ResetBuffer", 0)
    /\ ret' = 0
    /\ top_index' = USub(buffer_size, 1)
    /\ read_ptr' = 0
    /\ write_ptr' = 0
    /\ bottom_index' = 0
    /\ acc' = 0 .. top_index'
    /\ buffer' = Zeroed(buffer, 0, top_index')
    /\ TrackOther
    /\ UNCHANGED <<phase, buffer_error_code, buffer_size>>

ClearBuffer ==
    /\ phase = "ok"
    /\ call' = Call("ClearBuffer", 0)
    /\ ret' = 0
    /\ acc' = ClearedRange(bottom_index, top_index)
    /\ buffer' = Cleared(buffer, bottom_index, top_index)
    /\ TrackOther
    /\ UNCHANGED <<phase, buffer_error_code, buffer_size, top_index,
                   bottom_index, write_ptr, read_ptr>>

\* index_t = index; if(use_offset) index_t += bottom_index;
Translated(index, use_offset, bottom) ==
    IF use_offset THEN UAdd(index, bottom) ELSE index

\* Faulty variant of Accessible: the byte at top_index is refused as well.
AccessibleBelowTop(index_t, look_outside_borders, size, top, bottom) ==
    /\ ~(index_t >= size)
    /\ ~(~look_outside_borders /\ (index_t >= top \/ index_t < bottom))

\* Whether GetValueAt / SetValueAt get past their two range checks.
Accessible(index_t, look_outside_borders, size, top, bottom) ==
    /\ ~(index_t >= size)
    /\ ~(~look_outside_borders /\ (index_t > top \/ index_t < bottom))

\* What GetValueAt returns for the translated index index_t.
ValueAt(buf, index_t, look_outside_borders, size, top, bottom) ==
    IF Accessible(index_t, look_outside_borders, size, top, bottom)
    THEN buf[index_t]
    ELSE NullChar

GetValueAt(index, use_offset, look_outside_borders) ==
    LET index_t == Translated(index, use_offset, bottom_index)
    IN  /\ phase = "ok"
        /\ call' = Call("GetValueAt", 0)
        /\ ret' = ValueAt(buffer, index_t, look_outside_borders, buffer_size,
                          top_index, bottom_index)
        /\ acc' = IF Accessible(index_t, look_outside_borders, buffer_size,
                                top_index, bottom_index)
                  THEN {index_t}
                  ELSE {}
        /\ TrackOther
        /\ UNCHANGED <<phase, fields>>

\* What SetValueAt returns for the translated index index_t.
SetValueAtStatus(index_t, look_outside_borders, size, top, bottom) ==
    IF Accessible(index_t, look_outside_borders, size, top, bottom)
    THEN BUFFER_OK
    ELSE BUFFER_INDEX_OUT_OF_RANGE

\* The bytes SetValueAt leaves: buffer[index_t] = value past the checks.
SetValueAtStored(buf, index_t, value, look_outside, size, top, bottom) ==
    IF Accessible(index_t, look_outside, size, top, bottom)
    THEN [buf EXCEPT ![index_t] = value]
    ELSE buf

SetValueAt(index, value, use_offset, look_outside_borders) ==
    LET index_t == Translated(index, use_offset, bottom_index)
    IN  /\ phase = "ok"
        /\ call' = Call("SetValueAt", 0)
        /\ ret' = SetValueAtStatus(index_t, look_outside_borders, buffer_size,
                                   top_index, bottom_index)
        /\ buffer' = SetValueAtStored(buffer, index_t, value,
                                      look_outside_borders, buffer_size,
                                      top_index, bottom_index)
        /\ acc' = IF Accessible(index_t, look_outside_borders, buffer_size,
                                top_index, bottom_index)
                  THEN {index_t}
                  ELSE {}
        /\ TrackOther
        /\ UNCHANGED <<phase, buffer_error_code, buffer_size,
                       top_index, bottom_index, write_ptr, read_ptr>>

Next ==
    \/ \E buf_size \in Sizes, alloc_ok \in BOOLEAN :
         \E fill \in [0 .. (buf_size - 1) -> Byte], s0 \in CallerInts :
            Constructor(buf_size, alloc_ok, fill, s0)
    \/ \E ch \in Byte : Push(ch)
    \/ Pop
    \/ \E index \in Indices : SetPopIndex(index)
    \/ \E index \in Indices : SetPushIndex(index)
    \/ \E index \in Indices : SetTopIndex(index)
    \/ \E index \in Indices : SetBottomIndex(index)
    \/ \E size \in Sizes, alloc_ok \in BOOLEAN :
         \E fill \in [buffer_size .. (size - 1) -> Byte] :
            ReallocBuffer(size, alloc_ok, fill)
    \/ ResetBuffer
    \/ ClearBuffer
    \/ \E index \in Indices, use_offset \in BOOLEAN,
          look_outside_borders \in BOOLEAN :
            GetValueAt(index, use_offset, look_outside_borders)
    \/ \E index \in Indices, value \in Byte, use_offset \in BOOLEAN,
          look_outside_borders \in BOOLEAN :
            SetValueAt(index, value, use_offset, look_outside_borders)

Spec == Init /\ [][Next]_vars

\* ------------------------------------------------------------------ claims

Constructed == phase = "ok"

\* C1: after every public operation on a constructed buffer,
\* bottom_index <= write_ptr <= top_index.  ReallocBuffer breaks it: it
\* resets an out-of-range write_ptr to 0, which is below a bottom_index > 0.
C1_WritePtrInWindow ==
    Constructed => bottom_index <= write_ptr /\ write_ptr <= top_index

\* C2: after every public operation on a constructed buffer,
\* 0 <= bottom_index <= read_ptr <= top_index <= buffer_size - 1, and
\* buffer_size >= 1.
C2_ReadPtrAndBordersInRange ==
    Constructed =>
        /\ buffer_size >= 1
        /\ 0 <= bottom_index
        /\ bottom_index <= read_ptr
        /\ read_ptr <= top_index
        /\ top_index <= buffer_size - 1

\* C2 witness: a shrinking ReallocBuffer has clamped both borders to the new
\* last index and moved the read pointer there.
C2_Witness ==
    /\ Constructed
    /\ call.op = "ReallocBuffer"
    /\ ret = BUFFER_OK
    /\ buffer_size = 2
    /\ bottom_index = 1
    /\ top_index = 1
    /\ read_ptr = 1
    /\ write_ptr = 0

\* The Pop results recorded so far are the bytes pushed, in the order pushed.
ReadsArePrefix ==
    /\ Len(reads) <= Len(written)
    /\ \A j \in 1 .. Len(reads) : reads[j] = written[j]

\* C3 as stated: starting with read_ptr = write_ptr, n Push calls followed by
\* n Pop calls, 1 <= n <= window size (n = window size included), and nothing
\* else in between: the Pop calls return the pushed bytes in order.
C3_FifoUpToWindowSize ==
    (sess = "reading" /\ Len(written) <= WindowSize) => ReadsArePrefix

\* C3 amended: the same for 1 <= n <= window size - 1.
C3_FifoBelowWindowSize ==
    (sess = "reading" /\ Len(written) < WindowSize) => ReadsArePrefix

\* C3 witness: two different bytes pushed into a window of three and both
\* popped again.
C3_Witness ==
    /\ sess = "reading"
    /\ WindowSize = 3
    /\ Len(written) = 2
    /\ written[1] # written[2]
    /\ Len(reads) = 2

\* C4: Push changes, and Pop returns, only a byte whose index lies in
\* bottom_index .. top_index.  Fails after the ReallocBuffer of C1: Push
\* then stores at write_ptr = 0 < bottom_index.
C4_PushPopInsideWindow ==
    (Constructed /\ call.op \in {"Push", "Pop"}) =>
        \A i \in acc : bottom_index <= i /\ i <= top_index

\* The number (from 0) of the latest of k writes that went to index i of a
\* cyclic buffer of c bytes.
LatestWrite(i, k, c) == i + c * ((k - 1 - i) \div c)

\* C5: after k Push calls on a freshly constructed buffer of c bytes and
\* nothing else, write_ptr = k mod c and every index i < min(k, c) holds the
\* latest byte pushed among the writes number j with j mod c = i.
C5_FreshWritesWrap ==
    (Constructed /\ fresh) =>
        LET k == Len(written)
            c == buffer_size
        IN  /\ write_ptr = k % c
            /\ \A i \in 0 .. (c - 1) :
                 i < k => buffer[i] = written[LatestWrite(i, k, c) + 1]

\* C5 witness: one Push more than the buffer holds, on a buffer of at least
\* two bytes: the write pointer has wrapped and the oldest byte, a 1, was
\* overwritten by a 0.
C5_Witness ==
    /\ Constructed
    /\ fresh
    /\ buffer_size >= 2
    /\ Len(written) = buffer_size + 1
    /\ written[1] = 1
    /\ written[buffer_size + 1] = 0

\* C6: Pop called with read_ptr = write_ptr returns (unsigned char)NULL and
\* changes no pointer, border, size or byte; called with read_ptr # write_ptr
\* it returns buffer[read_ptr] and advances read_ptr by one, to bottom_index
\* when it was at top_index.
C6_PopBehaviour ==
    [][(Constructed /\ call'.op = "Pop") =>
         IF read_ptr = write_ptr
         THEN /\ ret' = NullChar
              /\ UNCHANGED <<read_ptr, write_ptr, top_index, bottom_index,
                             buffer_size, buffer>>
         ELSE /\ ret' = buffer[read_ptr]
              /\ read_ptr' = (IF read_ptr = top_index
                              THEN bottom_index ELSE read_ptr + 1)]_vars

\* C6 witness: a Pop returned a stored 1 from top_index and wrapped the read
\* pointer to bottom_index.
C6_Witness ==
    /\ Constructed
    /\ call.op = "Pop"
    /\ ret = 1
    /\ top_index > bottom_index
    /\ read_ptr = bottom_index

\* C7: a successful construction hands BUFFER_OK back through *success,
\* whatever *success held before.  The constructor never assigns *success on
\* that path.
C7_ConstructorReportsOk ==
    (Constructed /\ call.op = "CyclicBuffer") => ret = BUFFER_OK

\* C8: right after a successful construction every byte 0 .. buf_size-1 is
\* (unsigned char)NULL.  ClearBuffer stops before top_index, so the last byte
\* keeps what the allocation held.
C8_ConstructorZeroesAll ==
    (Constructed /\ call.op = "CyclicBuffer") =>
        \A i \in 0 .. (buffer_size - 1) : buffer[i] = NullChar

\* C9: right after a successful construction with buf_size = c >= 1,
\* buffer_size = c, bottom_index = 0, top_index = c - 1 and
\* read_ptr = write_ptr = 0; construction with buf_size = 0 reports
\* BUFFER_INVALID_SIZE.
C9_ConstructorState ==
    call.op = "CyclicBuffer" =>
        IF call.arg = 0
        THEN ~Constructed /\ ret = BUFFER_INVALID_SIZE
        ELSE Constructed =>
                /\ buffer_size = call.arg
                /\ bottom_index = 0
                /\ top_index = call.arg - 1
                /\ read_ptr = 0
                /\ write_ptr = 0

\* C9 witness: a buffer of the largest size was constructed.
C9_Witness ==
    /\ Constructed
    /\ call.op = "CyclicBuffer"
    /\ call.arg = MaxCap

\* C10: SetPopIndex(index) / SetPushIndex(index) set their pointer to index
\* and return BUFFER_OK when bottom_index <= index <= top_index; return
\* BUFFER_INDEX_GREATER when index > top_index and BUFFER_INDEX_LESS when
\* index < bottom_index, changing no pointer, border, size or byte; the other
\* pointer never changes.
C10_SetPointerIndex ==
    [][(Constructed /\ call'.op \in {"SetPopIndex", "SetPushIndex"}) =>
         LET index == call'.arg
             pop == call'.op = "SetPopIndex"
         IN  /\ (bottom_index <= index /\ index <= top_index) =>
                    /\ ret' = BUFFER_OK
                    /\ IF pop THEN read_ptr' = index ELSE write_ptr' = index
             /\ index > top_index =>
                    /\ ret' = BUFFER_INDEX_GREATER
                    /\ UNCHANGED <<read_ptr, write_ptr, top_index,
                                   bottom_index, buffer_size, buffer>>
             /\ index < bottom_index =>
                    /\ ret' = BUFFER_INDEX_LESS
                    /\ UNCHANGED <<read_ptr, write_ptr, top_index,
                                   bottom_index, buffer_size, buffer>>
             /\ IF pop THEN write_ptr' = write_ptr
                       ELSE read_ptr' = read_ptr]_vars

\* C10 witness: SetPushIndex refused an index below bottom_index.
C10_Witness ==
    /\ Constructed
    /\ call.op = "SetPushIndex"
    /\ ret = BUFFER_INDEX_LESS
    /\ call.arg < bottom_index

\* No pointer, border, size or byte changes in the step.
NothingChanges ==
    UNCHANGED <<read_ptr, write_ptr, top_index, bottom_index, buffer_size,
                buffer>>

\* C11: SetTopIndex(i) and SetBottomIndex(i) with i > buffer_size - 1 return
\* BUFFER_INDEX_GREATER (whatever the borders are); SetTopIndex(i) with
\* i < bottom_index returns BUFFER_INDEX_COLLISION_LESS; SetBottomIndex(i)
\* with i <= buffer_size - 1 and i > top_index returns
\* BUFFER_INDEX_COLLISION_GREATER; none of these calls changes a pointer, a
\* border, the size or a byte.
C11_BorderFailures ==
    [][(Constructed /\ call'.op \in {"SetTopIndex", "SetBottomIndex"}) =>
         LET i == call'.arg
             top == call'.op = "SetTopIndex"
         IN  /\ i > buffer_size - 1 =>
                    ret' = BUFFER_INDEX_GREATER /\ NothingChanges
             /\ (top /\ i < bottom_index) =>
                    ret' = BUFFER_INDEX_COLLISION_LESS /\ NothingChanges
             /\ (~top /\ i <= buffer_size - 1 /\ i > top_index) =>
                    ret' = BUFFER_INDEX_COLLISION_GREATER /\ NothingChanges
      ]_vars

\* C11 witness: SetBottomIndex refused an index inside the allocation but
\* above top_index.
C11_Witness ==
    /\ Constructed
    /\ call.op = "SetBottomIndex"
    /\ ret = BUFFER_INDEX_COLLISION_GREATER
    /\ call.arg > top_index
    /\ call.arg <= buffer_size - 1

\* A SetTopIndex or SetBottomIndex call of the step returned BUFFER_OK.
BorderMoved ==
    /\ Constructed
    /\ call'.op \in {"SetTopIndex", "SetBottomIndex"}
    /\ ret' = BUFFER_OK

\* The border nearest to ptr of the window lo .. hi, ptr itself when inside.
Nearest(ptr, lo, hi) ==
    IF ptr > hi THEN hi ELSE IF ptr < lo THEN lo ELSE ptr

\* C12 as stated: a successful SetTopIndex or SetBottomIndex sends each
\* pointer that is outside the new window to the nearest border of the new
\* window and leaves a pointer inside the new window alone.
C12_CursorsToNearestBorder ==
    [][BorderMoved =>
         /\ write_ptr' = Nearest(write_ptr, bottom_index', top_index')
         /\ read_ptr' = Nearest(read_ptr, bottom_index', top_index')]_vars

\* C12 amended: a successful SetTopIndex sends each pointer above the new
\* top_index to bottom_index and leaves every other pointer alone; a
\* successful SetBottomIndex sends each pointer below the new bottom_index to
\* the new bottom_index and leaves every other pointer alone.
C12_CursorsRelocated ==
    [][BorderMoved =>
         IF call'.op = "SetTopIndex"
         THEN /\ write_ptr' = (IF write_ptr > call'.arg
                               THEN bottom_index ELSE write_ptr)
              /\ read_ptr' = (IF read_ptr > call'.arg
                              THEN bottom_index ELSE read_ptr)
         ELSE /\ write_ptr' = (IF write_ptr < call'.arg
                               THEN call'.arg ELSE write_ptr)
              /\ read_ptr' = (IF read_ptr < call'.arg
                              THEN call'.arg ELSE read_ptr)]_vars

\* C12 witness: SetTopIndex succeeded without adding a byte to a window of
\* two or more bytes, the write pointer is at bottom_index (where a pointer
\* above the new top_index is sent) and the read pointer at top_index.
C12_Witness ==
    /\ Constructed
    /\ call.op = "SetTopIndex"
    /\ ret = BUFFER_OK
    /\ acc = {}
    /\ top_index < buffer_size - 1
    /\ bottom_index < top_index
    /\ write_ptr = bottom_index
    /\ read_ptr = top_index

\* C13: a successful SetTopIndex(index) zeroes exactly the bytes at
\* top_index+1 .. index, a successful SetBottomIndex(index) zeroes exactly the
\* bytes at index .. bottom_index-1 (both ranges empty unless the window
\* grows), and every other byte of the allocation keeps its value.
C13_BorderGrowthZeroes ==
    [][BorderMoved =>
         LET index == call'.arg
             added(i) == IF call'.op = "SetTopIndex"
                         THEN top_index < i /\ i <= index
                         ELSE index <= i /\ i < bottom_index
         IN  buffer' = [i \in DOMAIN buffer |->
                          IF added(i) THEN 0 ELSE buffer[i]]]_vars

\* C13 witness: SetTopIndex grew the window, the added bytes are zero and a
\* byte outside the added range still holds a 1.
C13_Witness ==
    /\ Constructed
    /\ call.op = "SetTopIndex"
    /\ ret = BUFFER_OK
    /\ acc # {}
    /\ \A i \in acc : buffer[i] = 0
    /\ \E i \in DOMAIN buffer \ acc : buffer[i] = 1

\* A ReallocBuffer call is the step.
Resized ==
    Constructed /\ call'.op = "ReallocBuffer"

\* C14: ReallocBuffer(size) with size equal to buffer_size returns BUFFER_OK,
\* ReallocBuffer whose realloc fails returns BUFFER_ALLOCATION_ERROR (the only
\* way to that code), and in both cases buffer_size, both borders, both
\* pointers and every byte are unchanged.
C14_ReallocNoOp ==
    [][Resized =>
         /\ call'.arg = buffer_size => ret' = BUFFER_OK /\ NothingChanges
         /\ ret' = BUFFER_ALLOCATION_ERROR => NothingChanges
         /\ \A size \in Sizes \ {0, buffer_size} :
               ReallocBuffer(size, FALSE, buffer) =>
                   ret' = BUFFER_ALLOCATION_ERROR /\ NothingChanges]_vars

\* C14 witness: a ReallocBuffer to another size failed on a buffer that holds
\* a 1 and whose read pointer is off zero.
C14_Witness ==
    /\ Constructed
    /\ call.op = "ReallocBuffer"
    /\ call.arg # buffer_size
    /\ ret = BUFFER_ALLOCATION_ERROR
    /\ read_ptr > 0
    /\ \E i \in DOMAIN buffer : buffer[i] = 1

\* C15 as stated: ReallocBuffer(0) returns BUFFER_INVALID_SIZE, the code the
\* constructor reports for size 0, and changes no index, size or byte.
C15_ReallocZeroInvalidSize ==
    [][(Resized /\ call'.arg = 0) =>
         ret' = BUFFER_INVALID_SIZE /\ NothingChanges]_vars

\* C15 amended: ReallocBuffer(0) returns BUFFER_INCORRECT_SIZE, which is not
\* the constructor's BUFFER_INVALID_SIZE, and changes no index, size or byte.
C15_ReallocZeroIncorrectSize ==
    [][(Resized /\ call'.arg = 0) =>
         /\ ret' = BUFFER_INCORRECT_SIZE
         /\ ret' # BUFFER_INVALID_SIZE
         /\ NothingChanges]_vars

\* C15 witness: ReallocBuffer(0) was refused on a buffer that holds a 1.
C15_Witness ==
    /\ Constructed
    /\ call.op = "ReallocBuffer"
    /\ call.arg = 0
    /\ ret = BUFFER_INCORRECT_SIZE
    /\ \E i \in DOMAIN buffer : buffer[i] = 1

\* The smaller of two naturals.
Min(a, b) ==
    IF a < b THEN a ELSE b

ResetState(size) ==
    /\ top_index = size - 1
    /\ bottom_index = 0
    /\ read_ptr = 0
    /\ write_ptr = 0
    /\ buffer = [i \in 0 .. (size - 1) |-> 0]

\* C17: from every reachable state ResetBuffer leaves buffer_size unchanged
\* and establishes top_index = buffer_size - 1, bottom_index = read_ptr =
\* write_ptr = 0 and every byte 0 .. buffer_size-1 zero; a ResetBuffer that
\* starts in such a state changes no field (idempotence).
C17_ResetBuffer ==
    [][(Constructed /\ call'.op = "ResetBuffer") =>
         /\ buffer_size' = buffer_size
         /\ ResetState(buffer_size)'
         /\ ResetState(buffer_size) => UNCHANGED fields]_vars

\* C17 witness: ResetBuffer ran on a block of the largest size.
C17_Witness ==
    /\ Constructed
    /\ call.op = "ResetBuffer"
    /\ buffer_size = MaxCap
    /\ top_index = MaxCap - 1

\* C18: after ClearBuffer returns, every byte at an index from bottom_index
\* to top_index inclusive is zero.
C18_ClearBufferZeroesWindow ==
    (Constructed /\ call.op = "ClearBuffer") =>
        \A i \in bottom_index .. top_index : buffer[i] = NullChar

\* The translated index as an exact sum, without unsigned wrap-around.
ExactTranslated(index, use_offset, bottom) ==
    IF use_offset THEN index + bottom ELSE index

\* C19: for every index and both settings of look_outside_borders, when the
\* translated index taken as an exact (not wrapped) sum is >= buffer_size,
\* GetValueAt returns (unsigned char)NULL and SetValueAt returns
\* BUFFER_INDEX_OUT_OF_RANGE and changes no byte.
C19_OutOfRangeRefused ==
    [][(Constructed /\ call'.op \in {"GetValueAt", "SetValueAt"}) =>
       \A index \in Indices, use_offset \in BOOLEAN,
          look_outside_borders \in BOOLEAN :
          ExactTranslated(index, use_offset, bottom_index) >= buffer_size =>
             /\ GetValueAt(index, use_offset, look_outside_borders) =>
                   ret' = NullChar
             /\ \A value \in Byte :
                   SetValueAt(index, value, use_offset,
                              look_outside_borders) =>
                      ret' = BUFFER_INDEX_OUT_OF_RANGE /\ buffer' = buffer
       ]_vars

StatusOps ==
    {"SetPopIndex", "SetPushIndex", "SetTopIndex", "SetBottomIndex",
     "ReallocBuffer", "SetValueAt"}

\* C21: after each call of SetPopIndex, SetPushIndex, SetTopIndex,
\* SetBottomIndex, ReallocBuffer or SetValueAt, failed or not,
\* buffer_error_code equals the status the call returned.
C21_ErrorCodeIsLastStatus ==
    (Constructed /\ call.op \in StatusOps) => buffer_error_code = ret

C23_AccessesInsideAllocation ==
    Constructed =>
        /\ \A i \in acc : 0 <= i /\ i < buffer_size
        /\ write_ptr < buffer_size
        /\ read_ptr < buffer_size
        /\ top_index < buffer_size
        /\ bottom_index < buffer_size
        /\ DOMAIN buffer = 0 .. (buffer_size - 1)

\* C23 witness: on a block smaller than the largest one, Push wrote the last
\* byte of the allocation and the write pointer wrapped to a bottom_index
\* above 0.
C23_Witness ==
    /\ Constructed
    /\ call.op = "Push"
    /\ buffer_size < MaxCap
    /\ acc = {buffer_size - 1}
    /\ top_index = buffer_size - 1
    /\ 0 < bottom_index
    /\ write_ptr = bottom_index

\* The read pointer after n calls of Pop with no other call in between: Pop
\* moves it to PopNext unless read_ptr == write_ptr, where it stays.
RECURSIVE ReadAfterPops(_, _, _, _, _)
ReadAfterPops(r, w, top, bottom, n) ==
    IF n = 0 \/ r = w
    THEN r
    ELSE ReadAfterPops(PopNext(r, top, bottom), w, top, bottom, n - 1)

\* C24: from every reachable state of a constructed buffer, Pop called
\* repeatedly with no other call in between reaches read_ptr == write_ptr
\* after at most WindowSize calls (first conjunct), and a Pop called with
\* read_ptr == write_ptr returns (unsigned char)NULL and moves no pointer
\* (second conjunct).
C24_DrainTerminates ==
    /\ [](Constructed =>
            \E n \in 0 .. WindowSize :
               ReadAfterPops(read_ptr, write_ptr, top_index, bottom_index, n)
                  = write_ptr)
    /\ [][(Constructed /\ call'.op = "Pop" /\ read_ptr = write_ptr) =>
            /\ ret' = NullChar
            /\ UNCHANGED <<read_ptr, write_ptr>>]_vars

====
